---------------------------- MODULE Spec2Model ----------------------------
(***************************************************************************)
(* Diagram import and graph reconstruction of the flow builder             *)
(* (frontend/src/main.jsx, frontend/src/VisioImportModal.jsx).             *)
(*                                                                         *)
(* Two import paths end in the same review state of the import modal:      *)
(*   - the document path: handleVisioFile -> parseMasters, parseVisioXml,  *)
(*   - the text path: TextToFlowTab.handleGenerate -> handleImageParsed.   *)
(*                                                                         *)
(* Text (labels, stencil names) is a sequence of one-character strings so  *)
(* that trimming, lower-casing and substring tests are computed.  Ids and  *)
(* attribute values that are only compared or used as keys are strings.    *)
(***************************************************************************)
EXTENDS Integers, Sequences, FiniteSets, TLC

VARIABLES
    pending,        \* the handlers waiting on an await: a subset of
                    \* {"visio", "text"}
    file,           \* the package given to handleVisioFile
    data,           \* the generation service's response body
    step,           \* modal step: 0 = upload, 1 = review
    nodes,          \* modal state: nodes under review
    edges,          \* modal state: edges under review
    parseWarnings,  \* modal state: warnings shown on the review step
    error,          \* modal state: error message ("" = none)
    flowName,       \* modal state: the name the flow is saved under
    saving,         \* modal state: a saveFlow call is under way
    publishAfterSave, \* modal state: publish once the import request succeeded
    call,           \* the saveFlow call under way: its position and the
                    \* values of the render it was started from
    request,        \* the persistence request issued last, with the modal's
                    \* step when it was issued
    importType,     \* modal state: the tab of the upload step, "text" or "visio"
    version         \* the version the last saveFlow call created on the
                    \* backend, and what it holds

vars == <<pending, file, data, step, nodes, edges, parseWarnings, error,
          flowName, saving, publishAfterSave, call, request, importType, version>>

---------------------------------------------------------------------------
(* JavaScript values                                                       *)

\* getAttribute of a missing attribute, a missing JSON member
Null == "<null>"
Undefined == "<undefined>"
\* a property found on Object.prototype (a function, never a string)
Inherited == "<inherited>"
\* One of Object.prototype's property names ("toString", "valueOf",
\* "hasOwnProperty" behave alike): present in every object literal {}.
ObjectProtoKeys == {"constructor"}

\* truthiness of a string-or-missing value
Truthy(v) == v \notin {Null, Undefined, ""}

\* a value used as a property key: String(v)
Key(v) == IF v = Null THEN "null" ELSE IF v = Undefined THEN "undefined" ELSE v

\* obj[k] of a plain object {} holding string values
JsGet(obj, k) ==
    IF Key(k) \in DOMAIN obj THEN obj[Key(k)]
    ELSE IF Key(k) \in ObjectProtoKeys THEN Inherited
    ELSE Undefined

\* obj[k] = v
JsSet(obj, k, v) == [x \in DOMAIN obj \cup {Key(k)} |-> IF x = Key(k) THEN v ELSE obj[x]]

\* the empty function: {} without its prototype
EmptyObj == [x \in {} |-> Undefined]

---------------------------------------------------------------------------
(* Text                                                                    *)

UpperAlpha == <<"A","B","C","D","E","F","G","H","I","J","K","L","M","N","O","P","Q","R","S","T","U","V","W","X","Y","Z">>
LowerAlpha == <<"a","b","c","d","e","f","g","h","i","j","k","l","m","n","o","p","q","r","s","t","u","v","w","x","y","z">>

UpperToLower ==
    [c \in {UpperAlpha[i] : i \in DOMAIN UpperAlpha} |->
        LowerAlpha[CHOOSE i \in DOMAIN UpperAlpha : UpperAlpha[i] = c]]

LowerChar(c) == IF c \in DOMAIN UpperToLower THEN UpperToLower[c] ELSE c

\* String.prototype.toLowerCase
ToLowerCase(s) == [i \in DOMAIN s |-> LowerChar(s[i])]

IsSpace(c) == c \in {" ", "\t", "\n"}

RECURSIVE TrimStart(_)
TrimStart(s) == IF s # <<>> /\ IsSpace(Head(s)) THEN TrimStart(Tail(s)) ELSE s

RECURSIVE TrimEnd(_)
TrimEnd(s) ==
    IF s # <<>> /\ IsSpace(s[Len(s)]) THEN TrimEnd(SubSeq(s, 1, Len(s) - 1)) ELSE s

\* String.prototype.trim
Trim(s) == TrimEnd(TrimStart(s))

\* s.replace(/\s+/g, ' ')
RECURSIVE CollapseSpaces(_)
CollapseSpaces(s) ==
    IF s = <<>> THEN <<>>
    ELSE IF IsSpace(Head(s))
         THEN <<" ">> \o CollapseSpaces(TrimStart(s))
         ELSE <<Head(s)>> \o CollapseSpaces(Tail(s))

\* String.prototype.startsWith
StartsWith(s, p) == Len(s) >= Len(p) /\ SubSeq(s, 1, Len(p)) = p

\* String.prototype.includes
Includes(s, p) ==
    \E i \in 1..(Len(s) - Len(p) + 1) : SubSeq(s, i, i + Len(p) - 1) = p

---------------------------------------------------------------------------
(* Stencil tables                                                          *)

RESULT_MASTERS == {
    <<"t","e","r","m","i","n","a","t","o","r">>,
    <<"s","t","a","r","t","/","e","n","d">>,
    <<"s","t","a","r","t">>,
    <<"e","n","d">>,
    <<"t","e","r","m","i","n","a","l">> }

CONNECTOR_MASTERS == {
    <<"d","y","n","a","m","i","c"," ","c","o","n","n","e","c","t","o","r">>,
    <<"s","t","r","a","i","g","h","t"," ","c","o","n","n","e","c","t","o","r">>,
    <<"c","u","r","v","e","d"," ","c","o","n","n","e","c","t","o","r">>,
    <<"e","l","b","o","w"," ","c","o","n","n","e","c","t","o","r">>,
    <<"c","o","n","n","e","c","t","o","r">> }

\* the inline list of parseVisioXml (the same names as RESULT_MASTERS)
TERMINATOR_KEYS == {
    <<"t","e","r","m","i","n","a","t","o","r">>,
    <<"s","t","a","r","t","/","e","n","d">>,
    <<"s","t","a","r","t">>,
    <<"e","n","d">>,
    <<"t","e","r","m","i","n","a","l">> }

\* masterMap.get of an id the catalog does not hold, and the null of a
\* shape without a Master attribute: both falsy
NoMasterInfo == [has |-> FALSE, nameU |-> <<>>, name |-> <<>>]

\* a || b on text
OrText(a, b) == IF a # <<>> THEN a ELSE b

\* parseMasters: the Map from a Master element's ID to its names; the last
\* element with an ID wins (Map.set overwrites); no catalog text gives the
\* empty map
parseMasters(masters) ==
    [id \in {masters[i].ID : i \in DOMAIN masters} |->
        LET last == CHOOSE i \in DOMAIN masters :
                        /\ masters[i].ID = id
                        /\ \A j \in DOMAIN masters : masters[j].ID = id => j <= i
            m == masters[last]
        IN [has |-> TRUE,
            nameU |-> Trim(ToLowerCase(OrText(m.NameU, m.Name))),
            name |-> Trim(ToLowerCase(m.Name))]]

\* masterMap.get(id)
MasterMapGet(masterMap, id) ==
    IF id \in DOMAIN masterMap THEN masterMap[id] ELSE NoMasterInfo

\* masterInfo.nameU || masterInfo.name
MasterKeyOf(masterInfo) == OrText(masterInfo.nameU, masterInfo.name)

ESCALAT == <<"e","s","c","a","l","a","t">>
RESOLV == <<"r","e","s","o","l","v">>
RESULT_PREFIX == <<"r","e","s","u","l","t">>

\* classifyShape without the label branch for a shape that has no master
classifyShape_TablesOnly(masterInfo, labelText) ==
    IF masterInfo.has /\ MasterKeyOf(masterInfo) \in RESULT_MASTERS THEN "result"
    ELSE IF masterInfo.has /\ MasterKeyOf(masterInfo) \in CONNECTOR_MASTERS THEN "connector"
    ELSE "question"

classifyShape(masterInfo, labelText) ==
    LET label == ToLowerCase(labelText) IN
    IF ~masterInfo.has
    THEN IF Includes(label, ESCALAT) \/ Includes(label, RESOLV)
              \/ StartsWith(label, RESULT_PREFIX)
         THEN "result" ELSE "question"
    ELSE IF MasterKeyOf(masterInfo) \in RESULT_MASTERS THEN "result"
    ELSE IF MasterKeyOf(masterInfo) \in CONNECTOR_MASTERS THEN "connector"
    ELSE "question"

---------------------------------------------------------------------------
(* parseVisioXml                                                           *)

PX_PER_INCH == 96
PAGE_HEIGHT_IN == 11
MIN_COORD == 20

Max(a, b) == IF a >= b THEN a ELSE b

\* a connectorMap entry {}: neither end recorded
EmptyWire == [from |-> Undefined, to |-> Undefined]

\* connectorMap = {} before the Connect loop.  connectorMap[k] of a name found
\* on Object.prototype is an object already (truthy, no .from, no .to), so
\* the loop never replaces it and writes its ends on that object.
ConnectorMapInit == [k \in ObjectProtoKeys |-> EmptyWire]

\* the Connect loop: records sharing a FromSheet merge into one entry
RECURSIVE BuildConnectorMap(_, _)
BuildConnectorMap(connects, cmap) ==
    IF connects = <<>> THEN cmap
    ELSE LET c == Head(connects)
             k == Key(c.FromSheet)
             cur == IF k \in DOMAIN cmap THEN cmap[k] ELSE EmptyWire
             upd == IF c.FromPart = "9" THEN [cur EXCEPT !.from = c.ToSheet]
                    ELSE IF c.FromPart = "12" THEN [cur EXCEPT !.to = c.ToSheet]
                    ELSE cur
         IN BuildConnectorMap(Tail(connects), JsSet(cmap, k, upd))

ConnectorMapOf(connects) == BuildConnectorMap(connects, ConnectorMapInit)

\* (textEl ? textEl.textContent : '').trim().replace(/\s+/g, ' ')
ShapeLabel(shape) == CollapseSpaces(Trim(shape.Text))

\* masterId ? masterMap.get(masterId) : null
ShapeMasterInfo(shape, masterMap) ==
    IF Truthy(shape.Master) THEN MasterMapGet(masterMap, shape.Master) ELSE NoMasterInfo

\* masterInfo ? (masterInfo.nameU || masterInfo.name) : ''
MasterKeyOrEmpty(info) == IF info.has THEN MasterKeyOf(info) ELSE <<>>

\* IsConnectorShape without the test of the Connect records
IsConnectorShape_MarkersOnly(shape, info, cmap) ==
    \/ shape.Type = "Edge"
    \/ info.has /\ MasterKeyOf(info) \in CONNECTOR_MASTERS

\* isEdgeType || isConnectorMaster || connectorMap[shapeId]
IsConnectorShape(shape, info, cmap) ==
    \/ shape.Type = "Edge"
    \/ info.has /\ MasterKeyOf(info) \in CONNECTOR_MASTERS
    \/ Key(shape.ID) \in DOMAIN cmap

\* the constants the Shape loop computes for one shape
ShapeView(shape, info, label, cmap) ==
    [shapeId |-> shape.ID, masterInfo |-> info, masterKey |-> MasterKeyOrEmpty(info),
     isTerminator |-> MasterKeyOrEmpty(info) \in TERMINATOR_KEYS,
     label |-> label, pinX |-> shape.PinX, pinY |-> shape.PinY,
     isConnector |-> IsConnectorShape(shape, info, cmap),
     wire |-> IF Key(shape.ID) \in DOMAIN cmap THEN cmap[Key(shape.ID)] ELSE EmptyWire]

ShapeViews(shapes, cmap, masterMap) ==
    [i \in DOMAIN shapes |->
        ShapeView(shapes[i], ShapeMasterInfo(shapes[i], masterMap),
                  ShapeLabel(shapes[i]), cmap)]

\* the Shape loop, connector branch: one raw edge per connector shape whose
\* entry has both ends; its tempId counts the edges pushed so far
RECURSIVE CollectEdges(_, _)
CollectEdges(views, acc) ==
    IF views = <<>> THEN acc
    ELSE LET v == Head(views)
             e == [visioSrcId |-> v.wire.from, visioTgtId |-> v.wire.to,
                   tempId |-> "import-edge-" \o ToString(Len(acc)),
                   label |-> v.label]
         IN CollectEdges(Tail(views),
                IF v.isConnector /\ Truthy(v.wire.from) /\ Truthy(v.wire.to)
                THEN Append(acc, e) ELSE acc)

\* the Shape loop, node branch: the shapes kept as rawShapes
RawShapeOf(v) ==
    [shapeId |-> v.shapeId, masterInfo |-> v.masterInfo, masterKey |-> v.masterKey,
     isTerminator |-> v.isTerminator, label |-> v.label, pinX |-> v.pinX, pinY |-> v.pinY]

\* CollectRawShapes keeping only the shapes whose stencil the catalog names
CollectRawShapes_NeedsStencil(views) ==
    LET kept == SelectSeq(views, LAMBDA v : ~v.isConnector /\ v.label # <<>>
                                            /\ v.masterInfo.has)
    IN [i \in DOMAIN kept |-> RawShapeOf(kept[i])]

\* CollectRawShapes keeping the labelled connector shapes too
CollectRawShapes_KeepsConnectors(views) ==
    LET kept == SelectSeq(views, LAMBDA v : v.label # <<>>)
    IN [i \in DOMAIN kept |-> RawShapeOf(kept[i])]

CollectRawShapes(views) ==
    LET kept == SelectSeq(views, LAMBDA v : ~v.isConnector /\ v.label # <<>>)
    IN [i \in DOMAIN kept |-> RawShapeOf(kept[i])]

\* (a, b) => b.pinY - a.pinY || a.pinX - b.pinX  is negative
ShapeBefore(a, b) == a.pinY > b.pinY \/ (a.pinY = b.pinY /\ a.pinX < b.pinX)

\* Array.prototype.sort is stable: x goes before the first element it must precede
RECURSIVE InsertShape(_, _)
InsertShape(x, sorted) ==
    IF sorted = <<>> THEN <<x>>
    ELSE IF ShapeBefore(x, Head(sorted)) THEN <<x>> \o sorted
    ELSE <<Head(sorted)>> \o InsertShape(x, Tail(sorted))

RECURSIVE SortShapes(_)
SortShapes(s) ==
    IF s = <<>> THEN <<>>
    ELSE InsertShape(s[Len(s)], SortShapes(SubSeq(s, 1, Len(s) - 1)))

\* new Set(edges.map(e => e._visioTgtId).filter(Boolean))
AllTargetIds(rawEdges) ==
    {rawEdges[i].visioTgtId : i \in {j \in DOMAIN rawEdges : Truthy(rawEdges[j].visioTgtId)}}

\* rawShapes.filter(s => !allTargetIds.has(s.shapeId))
NoIncoming(rawShapes, rawEdges) ==
    SelectSeq(rawShapes, LAMBDA s : s.shapeId \notin AllTargetIds(rawEdges))

\* noIncoming.find(s => s.isTerminator)
FirstTerminator(noIncoming) ==
    LET t == SelectSeq(noIncoming, LAMBDA s : s.isTerminator) IN
    IF t = <<>> THEN <<>> ELSE <<t[1]>>

\* startShape, as a sequence of zero or one shape
StartShape(rawShapes, rawEdges) ==
    LET noIncoming == NoIncoming(rawShapes, rawEdges) IN
    IF FirstTerminator(noIncoming) # <<>> THEN FirstTerminator(noIncoming)
    ELSE IF noIncoming # <<>> THEN <<SortShapes(noIncoming)[1]>>
    ELSE IF rawShapes # <<>> THEN <<SortShapes(rawShapes)[1]>>
    ELSE <<>>

\* rawShapes after the start is chosen: the third alternative of the ||
\* chain sorts rawShapes in place, and is evaluated only when the first two
\* found nothing
RawShapesAfterStart(rawShapes, rawEdges) ==
    IF NoIncoming(rawShapes, rawEdges) = <<>> THEN SortShapes(rawShapes) ELSE rawShapes

\* startShape?.shapeId || null
StartShapeId(rawShapes, rawEdges) ==
    LET st == StartShape(rawShapes, rawEdges) IN
    IF st # <<>> /\ Truthy(st[1].shapeId) THEN st[1].shapeId ELSE Null

\* NodeTypeOf without the override of the start's type
NodeTypeOf_NoStartOverride(r, isStart) ==
    IF r.isTerminator THEN "result" ELSE classifyShape(r.masterInfo, r.label)

\* the type given to a raw shape
NodeTypeOf(r, isStart) ==
    IF isStart THEN "question"
    ELSE IF r.isTerminator THEN "result"
    ELSE classifyShape(r.masterInfo, r.label)

\* the rawShapes loop: nodes and idMap grow together
RECURSIVE BuildNodes(_, _, _, _)
BuildNodes(raw, startShapeId, acc, idMap) ==
    IF raw = <<>> THEN [nodes |-> acc, idMap |-> idMap]
    ELSE LET r == Head(raw)
             isStart == r.shapeId = startShapeId
             nodeType == NodeTypeOf(r, isStart)
             tempId == "import-node-" \o ToString(Len(acc))
             n == [tempId |-> tempId, visioId |-> r.shapeId, title |-> r.label,
                   type |-> nodeType,
                   position |-> [x |-> Max(MIN_COORD, r.pinX * PX_PER_INCH),
                                 y |-> Max(MIN_COORD, (PAGE_HEIGHT_IN - r.pinY) * PX_PER_INCH)],
                   body |-> "", is_start |-> isStart,
                   masterName |-> IF r.masterKey # <<>> THEN r.masterKey
                                  ELSE <<"u","n","k","n","o","w","n">>]
         IN IF nodeType = "connector"
            THEN BuildNodes(Tail(raw), startShapeId, acc, idMap)
            ELSE BuildNodes(Tail(raw), startShapeId, Append(acc, n),
                            JsSet(idMap, r.shapeId, tempId))

\* idMap[id] || null
ResolveId(idMap, id) ==
    IF Truthy(JsGet(idMap, id)) THEN JsGet(idMap, id) ELSE Null

\* the edges loop and the filter of the edges with both endpoints resolved
ResolveEdges(rawEdges, idMap) ==
    LET resolved == [i \in DOMAIN rawEdges |->
                        [tempId |-> rawEdges[i].tempId,
                         sourceId |-> ResolveId(idMap, rawEdges[i].visioSrcId),
                         targetId |-> ResolveId(idMap, rawEdges[i].visioTgtId),
                         label |-> rawEdges[i].label]]
    IN SelectSeq(resolved, LAMBDA e : Truthy(e.sourceId) /\ Truthy(e.targetId))

\* (a, b) => a.position.y - b.position.y || a.position.x - b.position.x  is negative
NodeBefore(a, b) ==
    \/ a.position.y < b.position.y
    \/ a.position.y = b.position.y /\ a.position.x < b.position.x

RECURSIVE InsertNode(_, _)
InsertNode(x, sorted) ==
    IF sorted = <<>> THEN <<x>>
    ELSE IF NodeBefore(x, Head(sorted)) THEN <<x>> \o sorted
    ELSE <<Head(sorted)>> \o InsertNode(x, Tail(sorted))

RECURSIVE SortNodes(_)
SortNodes(s) ==
    IF s = <<>> THEN <<>>
    ELSE InsertNode(s[Len(s)], SortNodes(SubSeq(s, 1, Len(s) - 1)))

\* whether the fallback after assembly runs
FallbackFires(ns) == ns # <<>> /\ \A i \in DOMAIN ns : ~ns[i].is_start

\* the fallback: the first node in (y, x) order becomes the start
ApplyFallback(ns) ==
    IF FallbackFires(ns)
    THEN LET first == SortNodes(ns)[1].tempId
             idx == CHOOSE i \in DOMAIN ns :
                        /\ ns[i].tempId = first
                        /\ \A j \in 1..(i - 1) : ns[j].tempId # first
         IN [ns EXCEPT ![idx].is_start = TRUE, ![idx].type = "question"]
    ELSE ns

\* from rawShapes and the raw edges to the returned graph
Assemble(rawShapes, rawEdges) ==
    LET built == BuildNodes(RawShapesAfterStart(rawShapes, rawEdges),
                            StartShapeId(rawShapes, rawEdges), <<>>, EmptyObj)
    IN [nodes |-> ApplyFallback(built.nodes),
        edges |-> ResolveEdges(rawEdges, built.idMap)]

ParsePage(views) == Assemble(CollectRawShapes(views), CollectEdges(views, <<>>))

parseVisioXml(page, masters) ==
    ParsePage(ShapeViews(page.shapes, ConnectorMapOf(page.connects), parseMasters(masters)))

---------------------------------------------------------------------------
(* handleVisioFile                                                         *)

Warning(w, a, b) == [w |-> w, a |-> a, b |-> b]
W_NO_MASTERS == Warning("No masters file found", 0, 0)
W_NO_CONNECTORS == Warning("No connectors found", 0, 0)
W_NO_START == Warning("Could not detect a start node", 0, 0)
\* `Detected ${questionCount} question node(s) and ${resultCount} result node(s)`
W_DETECTED(q, r) == Warning("Detected question and result nodes", q, r)

E_EXTENSION == "Please upload a .vsdx file exported from Visio."
E_NO_PAGES == "Could not find diagram pages in this file."
E_NO_SHAPES == "No shapes with text found on this page."
E_PARSE == "Failed to parse file"

CountType(ns, t) == Cardinality({i \in DOMAIN ns : ns[i].type = t})

EXT_VSDX == <<".","v","s","d","x">>
EXT_VSD == <<".","v","s","d">>

EndsWith(s, p) == Len(s) >= Len(p) /\ SubSeq(s, Len(s) - Len(p) + 1, Len(s)) = p

\* file.name.endsWith('.vsdx') || file.name.endsWith('.vsd')
HasVisioExtension(name) == EndsWith(name, EXT_VSDX) \/ EndsWith(name, EXT_VSD)

\* file.name.replace(/\.(vsdx|vsd)$/i, '').replace(/[-_]/g, ' ')
FileFlowName(name) ==
    LET low == ToLowerCase(name)
        base == IF EndsWith(low, EXT_VSDX) THEN SubSeq(name, 1, Len(name) - Len(EXT_VSDX))
                ELSE IF EndsWith(low, EXT_VSD) THEN SubSeq(name, 1, Len(name) - Len(EXT_VSD))
                ELSE name
    IN [i \in DOMAIN base |-> IF base[i] \in {"-", "_"} THEN " " ELSE base[i]]

\* what handleVisioFile leaves in the modal's state for a file
VisioOutcome(f) ==
    LET failed(msg) == [ok |-> FALSE, error |-> msg, nodes |-> <<>>, edges |-> <<>>,
                        warnings |-> <<>>]
        parsed == parseVisioXml(f.page, IF f.hasMasters THEN f.masters ELSE <<>>)
        w1 == IF f.hasMasters THEN <<>> ELSE <<W_NO_MASTERS>>
        w2 == IF parsed.edges = <<>> THEN <<W_NO_CONNECTORS>> ELSE <<>>
        w3 == IF \A i \in DOMAIN parsed.nodes : ~parsed.nodes[i].is_start
              THEN <<W_NO_START>> ELSE <<>>
        w4 == IF f.hasMasters
              THEN <<W_DETECTED(CountType(parsed.nodes, "question"),
                                CountType(parsed.nodes, "result"))>>
              ELSE <<>>
    IN  IF ~HasVisioExtension(f.name) THEN failed(E_EXTENSION)
        ELSE IF f.kind = "corrupt" THEN failed(E_PARSE)
        ELSE IF f.kind = "nopages" THEN failed(E_NO_PAGES)
        ELSE IF parsed.nodes = <<>> THEN failed(E_NO_SHAPES)
        ELSE [ok |-> TRUE, error |-> "", nodes |-> parsed.nodes, edges |-> parsed.edges,
              warnings |-> w1 \o w2 \o w3 \o w4]

\* handleVisioFile starting the warnings afresh when the file fails
handleVisioFile_ResetsOnFailure ==
    /\ "visio" \in pending
    /\ LET o == VisioOutcome(file) IN
        IF o.ok
        THEN /\ parseWarnings' = o.warnings
             /\ nodes' = o.nodes
             /\ edges' = o.edges
             /\ step' = 1
             /\ error' = ""
        ELSE /\ error' = o.error
             /\ parseWarnings' = <<>>
             /\ UNCHANGED <<step, nodes, edges>>
    /\ flowName' = IF HasVisioExtension(file.name) THEN FileFlowName(file.name)
                   ELSE flowName
    /\ pending' = pending \ {"visio"}
    /\ UNCHANGED <<file, data, saving, publishAfterSave, call, request, importType,
                   version>>

\* handleVisioFile, from the file chosen to the state it leaves: the review
\* step with the parsed graph, or the upload step with an error message
handleVisioFile ==
    /\ "visio" \in pending
    /\ LET o == VisioOutcome(file) IN
        IF o.ok
        THEN /\ parseWarnings' = o.warnings
             /\ nodes' = o.nodes
             /\ edges' = o.edges
             /\ step' = 1
             /\ error' = ""
        ELSE /\ error' = o.error
             /\ UNCHANGED <<step, nodes, edges, parseWarnings>>
    /\ flowName' = IF HasVisioExtension(file.name) THEN FileFlowName(file.name)
                   ELSE flowName
    /\ pending' = pending \ {"visio"}
    /\ UNCHANGED <<file, data, saving, publishAfterSave, call, request, importType,
                   version>>

---------------------------------------------------------------------------
(* TextToFlowTab.handleGenerate and handleImageParsed                      *)

\* a JSON value of the response: its type tag, and the number or the string
JsUndefined == [t |-> "undefined", n |-> 0, s |-> ""]
JsNull == [t |-> "null", n |-> 0, s |-> ""]
JsNumber(n) == [t |-> "number", n |-> n, s |-> ""]
JsStr(s) == [t |-> "string", n |-> 0, s |-> s]
JsBool(b) == [t |-> "boolean", n |-> IF b THEN 1 ELSE 0, s |-> ""]

\* String(v)
JsString(v) ==
    IF v.t = "number" THEN ToString(v.n)
    ELSE IF v.t = "string" THEN v.s
    ELSE IF v.t = "boolean" THEN (IF v.n = 1 THEN "true" ELSE "false")
    ELSE IF v.t = "null" THEN "null"
    ELSE "undefined"

\* !!v
ToBoolean(v) ==
    \/ v.t = "boolean" /\ v.n = 1
    \/ v.t = "number" /\ v.n # 0
    \/ v.t = "string" /\ v.s # ""

TITLE_MAX == 80
GRID_COLUMNS == 4
GRID_DX == 300
GRID_DY == 180
GRID_ORIGIN == 60

Digits == <<"0","1","2","3","4","5","6","7","8","9">>

\* the decimal digits of a natural number, as text
RECURSIVE NumText(_)
NumText(n) ==
    IF n < 10 THEN <<Digits[n + 1]>> ELSE NumText(n \div 10) \o <<Digits[(n % 10) + 1]>>

NodeTempId(i) == "import-node-" \o ToString(i)

\* one turn of the forEach with the index fallback overwriting the key
AiIdMapStep_IndexOverwrites(map, n, i) ==
    JsSet(IF n.id.t \notin {"undefined", "null"}
          THEN JsSet(map, JsString(n.id), NodeTempId(i)) ELSE map,
          ToString(i), NodeTempId(i))

\* one turn of the forEach that fills aiIdToTempId: the declared id first,
\* then the 0-based index unless that key is taken
AiIdMapStep(map, n, i) ==
    LET m1 == IF n.id.t \notin {"undefined", "null"}
              THEN JsSet(map, JsString(n.id), NodeTempId(i))
              ELSE map
    IN JsSet(m1, ToString(i),
             IF Truthy(JsGet(m1, ToString(i))) THEN JsGet(m1, ToString(i))
             ELSE NodeTempId(i))

RECURSIVE BuildAiIdMap(_, _, _)
BuildAiIdMap(ns, i, map) ==
    IF i >= Len(ns) THEN map
    ELSE BuildAiIdMap(ns, i + 1, AiIdMapStep(map, ns[i + 1], i))

\* Coordinate with a floor of 0 in place of 20
Coordinate_FloorZero(v, fallback) == Max(0, IF v.t = "number" THEN v.n ELSE fallback)

\* typeof v === 'number' ? v : fallback, then Math.max(20, .)
Coordinate(v, fallback) == Max(MIN_COORD, IF v.t = "number" THEN v.n ELSE fallback)

\* one element of data.nodes in the modal's node format
NormalizeNode(n, i) ==
    [tempId |-> NodeTempId(i),
     title |-> LET t == IF n.title # <<>> THEN n.title
                        ELSE <<"S","t","e","p"," ">> \o NumText(i + 1)
               IN SubSeq(t, 1, IF Len(t) < TITLE_MAX THEN Len(t) ELSE TITLE_MAX),
     type |-> IF n.type = "result" THEN "result" ELSE "question",
     body |-> IF Truthy(n.body) THEN n.body
              ELSE IF Truthy(n.description) THEN n.description ELSE "",
     position |-> [x |-> Coordinate(n.position.x, (i % GRID_COLUMNS) * GRID_DX + GRID_ORIGIN),
                   y |-> Coordinate(n.position.y, (i \div GRID_COLUMNS) * GRID_DY + GRID_ORIGIN)],
     is_start |-> ToBoolean(n.is_start),
     masterName |-> <<"A","I","-","g","e","n","e","r","a","t","e","d">>,
     resolution |-> IF Truthy(n.resolution) THEN n.resolution ELSE ""]

\* if (nodes.length > 0 && !nodes.some(n => n.is_start)) nodes[0].is_start = true
ForceFirstStart(ns) ==
    IF ns # <<>> /\ \A i \in DOMAIN ns : ~ns[i].is_start
    THEN [ns EXCEPT ![1].is_start = TRUE]
    ELSE ns

AdaptNodes(rawNodes) ==
    ForceFirstStart([i \in DOMAIN rawNodes |-> NormalizeNode(rawNodes[i], i - 1)])

\* aiIdToTempId[String(v)] ?? null
ResolveAiId(map, v) ==
    IF JsGet(map, JsString(v)) = Undefined THEN Null ELSE JsGet(map, JsString(v))

\* rawEdges.map(...).filter(e => e.sourceId && e.targetId)
AdaptEdges(rawEdges, map) ==
    LET mapped == [i \in DOMAIN rawEdges |->
                      [tempId |-> "import-edge-" \o ToString(i - 1),
                       sourceId |-> ResolveAiId(map, rawEdges[i].source),
                       targetId |-> ResolveAiId(map, rawEdges[i].target),
                       label |-> IF Truthy(rawEdges[i].label) THEN rawEdges[i].label
                                 ELSE ""]]
    IN SelectSeq(mapped, LAMBDA e : Truthy(e.sourceId) /\ Truthy(e.targetId))

W_DROPPED(n) == Warning("connection(s) could not be mapped and were skipped", n, 0)
W_AI_GENERATED == Warning("Flow was generated by AI", 0, 0)
E_SERVER == "Generation failed: server error"
E_NO_NODES == "Generation failed: AI returned no nodes."

\* the dropped-connection warning pushed also when nothing was dropped
DroppedWarnings_AlsoZero(rawEdges, es) ==
    IF Len(rawEdges) - Len(es) >= 0 THEN <<W_DROPPED(Len(rawEdges) - Len(es))>> ELSE <<>>

\* droppedEdgeCount and the warning pushed when it is positive
DroppedWarnings(rawEdges, es) ==
    LET droppedEdgeCount == Len(rawEdges) - Len(es) IN
    IF droppedEdgeCount > 0 THEN <<W_DROPPED(droppedEdgeCount)>> ELSE <<>>

NAME_MAX == 60
SENTENCE_ENDS == {".", "!", "?", "\n"}

\* description.trim().split(/[.!?\n]/)[0].slice(0, 60), and rawName =
\* suggestedName || '' in handleImageParsed
SuggestedName(description) ==
    LET d == Trim(description)
        stops == {i \in DOMAIN d : d[i] \in SENTENCE_ENDS}
        first == IF stops = {} THEN d
                 ELSE SubSeq(d, 1, (CHOOSE i \in stops : \A j \in stops : i <= j) - 1)
    IN SubSeq(first, 1, IF Len(first) < NAME_MAX THEN Len(first) ELSE NAME_MAX)

\* the graph handleGenerate hands to onGenerated, or the message to onError
TextOutcome(d) ==
    LET ns == AdaptNodes(d.nodes)
        es == AdaptEdges(d.edges, BuildAiIdMap(d.nodes, 0, EmptyObj))
        warnings == d.suggestions \o DroppedWarnings(d.edges, es)
    IN  IF d.kind = "httpError"
        THEN [ok |-> FALSE, error |-> E_SERVER, nodes |-> <<>>, edges |-> <<>>,
              warnings |-> <<>>]
        ELSE IF ns = <<>>
        THEN [ok |-> FALSE, error |-> E_NO_NODES, nodes |-> <<>>, edges |-> <<>>,
              warnings |-> <<>>]
        ELSE [ok |-> TRUE, error |-> "", nodes |-> ns, edges |-> es, warnings |-> warnings]

\* handleGenerate once the response has arrived: onGenerated is
\* handleImageParsed, onError sets the modal's error
handleGenerate ==
    /\ "text" \in pending
    /\ LET o == TextOutcome(data) IN
        IF o.ok
        THEN /\ parseWarnings' = <<W_AI_GENERATED>> \o o.warnings
             /\ nodes' = o.nodes
             /\ edges' = o.edges
             /\ step' = 1
             /\ flowName' = SuggestedName(data.description)
             /\ UNCHANGED error
        ELSE /\ error' = o.error
             /\ UNCHANGED <<step, nodes, edges, parseWarnings, flowName>>
    /\ pending' = pending \ {"text"}
    /\ UNCHANGED <<file, data, saving, publishAfterSave, call, request, importType,
                   version>>

---------------------------------------------------------------------------
(* Inputs of the document path                                             *)

MaxShapes == 2
MaxWires == 2

T_START_END == <<"S","t","a","r","t","/","E","n","d">>
T_DECISION == <<"D","e","c","i","s","i","o","n">>
T_DYNAMIC_CONNECTOR == <<"D","y","n","a","m","i","c"," ","c","o","n","n","e","c","t","o","r">>
T_TERMINATOR_PADDED == <<" ","T","e","r","m","i","n","a","t","o","r"," ">>
T_TERMINATOR == <<"T","e","r","m","i","n","a","t","o","r">>

L_BEGIN == <<"B","e","g","i","n">>
L_CARD_VALID == <<"C","a","r","d"," ","v","a","l","i","d","?">>
L_RESOLVED == <<"R","e","s","o","l","v","e","d">>
L_ESCALATE == <<"E","s","c","a","l","a","t","e">>
L_RESULTS == <<"R","e","s","u","l","t","s">>
L_BLANK == <<" ">>
L_YES == <<"Y","e","s">>

\* the Master elements of masters.xml: a terminator stencil, a step stencil,
\* a connector stencil, and a stencil named by Name only
Catalog == <<
    [ID |-> "0", NameU |-> T_START_END, Name |-> T_START_END],
    [ID |-> "1", NameU |-> T_DECISION, Name |-> T_DECISION],
    [ID |-> "2", NameU |-> T_DYNAMIC_CONNECTOR, Name |-> T_DYNAMIC_CONNECTOR],
    [ID |-> "3", NameU |-> <<>>, Name |-> T_TERMINATOR_PADDED] >>

Shape(id, type, master, text, pinX, pinY) ==
    [ID |-> id, Type |-> type, Master |-> master, Text |-> text,
     PinX |-> pinX, PinY |-> pinY]

Connect(fromSheet, toSheet, fromPart) ==
    [FromSheet |-> fromSheet, ToSheet |-> toSheet, FromPart |-> fromPart]

\* PinX, PinY of a shape: lower on the page, higher, and right of the higher
Pins == {<<1, 8>>, <<1, 9>>, <<2, 9>>}

\* a connector shape with the Connect records of its two ends (an end that
\* is Null has no record)
WireShape(id, kind, label) ==
    Shape(id, IF kind = "edge" THEN "Edge" ELSE "Shape",
          IF kind = "master" THEN "2" ELSE Null, label, 0, 0)

WireConnects(id, from, to) ==
    (IF from = Null THEN <<>> ELSE <<Connect(id, from, "9")>>)
    \o (IF to = Null THEN <<>> ELSE <<Connect(id, to, "12")>>)

RECURSIVE Flatten(_)
Flatten(ss) == IF ss = <<>> THEN <<>> ELSE Head(ss) \o Flatten(Tail(ss))

\* a page: labelled shapes in document order, then connector shapes
Page(shapeSeq, wireSeq) ==
    [shapes |-> shapeSeq \o [j \in DOMAIN wireSeq |->
                    WireShape(ToString(10 + j), wireSeq[j].kind, wireSeq[j].label)],
     connects |-> Flatten([j \in DOMAIN wireSeq |->
                    WireConnects(ToString(10 + j), wireSeq[j].from, wireSeq[j].to)])]

N_DIAGRAM == <<"m","y","-","f","l","o","w",".","v","s","d","x">>
N_NOTES == <<"n","o","t","e","s",".","t","x","t">>

VsdxFile(hasMasters, page) ==
    [kind |-> "vsdx", name |-> N_DIAGRAM, hasMasters |-> hasMasters,
     masters |-> Catalog, page |-> page]

\* a file that is no readable diagram: another extension, an archive that
\* does not open, an archive without a page entry
BadFile(k) ==
    [kind |-> k, name |-> IF k = "badext" THEN N_NOTES ELSE N_DIAGRAM,
     hasMasters |-> FALSE, masters |-> <<>>, page |-> Page(<<>>, <<>>)]

\* pages with untrusted shape ids (repeated, empty, missing), the shapes
\* one below the other in document order
IdShapes == [id : {"1", "2", "", Null}, master : {"0", "1"}]
IdWires == [kind : {"edge"}, label : {<<>>}, from : {"1", "2"}, to : {"1", "2"}]
IdPage(ss, ws) ==
    Page([i \in DOMAIN ss |-> Shape(ss[i].id, "Shape", ss[i].master, L_BEGIN, 1, 10 - i)],
         ws)

\* pages whose wiring and positions differ: wires between the shapes, a wire
\* with one end unrecorded, a wire to an id that names no shape
WiringShapes == [master : {"0", "1"}, pin : Pins]
WiringEnds ==
    ({"1", "2"} \X {"1", "2"}) \cup {<<"1", Null>>, <<Null, "2">>, <<"1", "constructor">>}
WiringWires ==
    {[kind |-> "edge", label |-> L_YES, from |-> e[1], to |-> e[2]] : e \in WiringEnds}
WiringPage(ss, ws) ==
    Page([i \in DOMAIN ss |-> Shape(ToString(i), "Shape", ss[i].master, L_BEGIN,
                                    ss[i].pin[1], ss[i].pin[2])], ws)

\* shapes without wires: an upper one, a terminator or a step or left out,
\* and a lower one of any stencil, label and type marker
ClassifyShapes ==
    [type : {"Shape", "Edge"}, master : {Null, "0", "1", "2", "3", "7"},
     text : {L_BEGIN, L_RESOLVED, L_ESCALATE, L_RESULTS, L_BLANK}]
ClassifyTops == {"0", "1", "none"}
ClassifyPage(top, sh) ==
    Page((IF top = "none" THEN <<>> ELSE <<Shape("1", "Shape", top, L_CARD_VALID, 1, 9)>>)
         \o <<Shape("2", sh.type, sh.master, sh.text, 1, 8)>>, <<>>)

\* a start and a step with one connector, recognised by its type marker, by
\* its stencil or by its Connect records alone
KindWires ==
    [kind : {"edge", "master", "plain"}, label : {L_YES, <<>>},
     from : {"1", "2", Null}, to : {"1", "2", Null, "constructor"}]
KindPage(w) ==
    Page(<<Shape("1", "Shape", "0", L_BEGIN, 1, 9),
           Shape("2", "Shape", "1", L_CARD_VALID, 1, 8)>>, <<w>>)

\* a start and a step joined by one connector, and one more Connect record
\* whose FromPart is neither 9 nor 12: of a shape, of the connector, or of
\* an id no Shape element has
STRAY_PART == "3"
StraySheets == {"1", "2", "11", "99"}
StrayEnds == {"1", "2"} \X {"1", "2"}
StrayPage(ends, sheet) ==
    LET p == KindPage([kind |-> "edge", label |-> L_YES, from |-> ends[1], to |-> ends[2]])
    IN [p EXCEPT !.connects = @ \o <<Connect(sheet, "2", STRAY_PART)>>]

\* a start wired to or from a second shape whose label may be empty or
\* blank and whose id may be a name every plain object inherits
BlankIds == {"2", "constructor"}
BlankLabels == {<<>>, L_BLANK, L_CARD_VALID}
BlankPage(id, label, outward) ==
    Page(<<Shape("1", "Shape", "0", L_BEGIN, 1, 9),
           Shape(id, "Shape", "1", label, 1, 8)>>,
         <<[kind |-> "edge", label |-> L_YES,
            from |-> IF outward THEN "1" ELSE id,
            to |-> IF outward THEN id ELSE "1"]>>)

\* a shape without label wired to "Begin", which is wired to "Card valid?";
\* the first wire starts at the unlabelled shape or at an id no shape has,
\* and either labelled shape may be the upper one
DanglingSources == {"3", "99"}
DanglingPage(src, beginOnTop) ==
    Page(<<Shape("1", "Shape", "1", L_BEGIN, 1, IF beginOnTop THEN 9 ELSE 7),
           Shape("2", "Shape", "1", L_CARD_VALID, 1, 8),
           Shape("3", "Shape", "1", <<>>, 1, 10)>>,
         <<[kind |-> "edge", label |-> <<>>, from |-> src, to |-> "1"],
           [kind |-> "edge", label |-> L_YES, from |-> "1", to |-> "2"]>>)

\* the files a user may upload
IsVisioFile(f) ==
    \/ \E n \in 0..MaxShapes, w \in 0..(MaxWires - 1) :
        \E ss \in [1..n -> IdShapes], ws \in [1..w -> IdWires] :
            f = VsdxFile(TRUE, IdPage(ss, ws))
    \/ \E n \in 0..MaxShapes, w \in 0..MaxWires :
        \E ss \in [1..n -> WiringShapes], ws \in [1..w -> WiringWires] :
            f = VsdxFile(TRUE, WiringPage(ss, ws))
    \/ \E top \in ClassifyTops, sh \in ClassifyShapes, hasMasters \in BOOLEAN :
        f = VsdxFile(hasMasters, ClassifyPage(top, sh))
    \/ \E w \in KindWires : f = VsdxFile(TRUE, KindPage(w))
    \/ \E ends \in StrayEnds, sheet \in StraySheets :
        f = VsdxFile(TRUE, StrayPage(ends, sheet))
    \/ \E id \in BlankIds, label \in BlankLabels, outward \in BOOLEAN :
        f = VsdxFile(TRUE, BlankPage(id, label, outward))
    \/ \E src \in DanglingSources, beginOnTop \in BOOLEAN :
        f = VsdxFile(TRUE, DanglingPage(src, beginOnTop))
    \/ \E k \in {"badext", "corrupt", "nopages"} : f = BadFile(k)

NoData == [kind |-> "none"]
NoCall == [pc |-> "idle"]
NoVersion == [state |-> "none"]
NoRequest == [kind |-> "none"]

\* the useState initial values of the save controls, no save under way
ModalAsConstructed ==
    /\ flowName = <<>>
    /\ saving = FALSE
    /\ publishAfterSave = TRUE
    /\ call = NoCall
    /\ request = NoRequest
    /\ version = NoVersion
NoFile == [kind |-> "none"]

\* the modal as constructed, and a file about to be uploaded
Init ==
    /\ pending = {"visio"}
    /\ importType = "visio"
    /\ IsVisioFile(file)
    /\ data = NoData
    /\ step = 0
    /\ nodes = <<>>
    /\ edges = <<>>
    /\ parseWarnings = <<>>
    /\ error = ""
    /\ ModalAsConstructed

Next == handleVisioFile

Spec == Init /\ [][Next]_vars

---------------------------------------------------------------------------
(* Inputs of the text path                                                 *)

MaxTextNodes == 2
MaxTextEdges == 1

NoPosition == [x |-> JsUndefined, y |-> JsUndefined]

RawNode(id, type, isStart) ==
    [id |-> id, title |-> <<>>, type |-> type, body |-> Undefined,
     description |-> Undefined, position |-> NoPosition, is_start |-> isStart,
     resolution |-> Undefined]

\* declared ids: none, a number that is also the second node's index, a string
TextNodeIds == {JsUndefined, JsNumber(1), JsStr("a")}
TextNodes ==
    {RawNode(id, type, st) : id \in TextNodeIds, type \in {"result", "decision"},
                             st \in {JsBool(TRUE), JsUndefined}}

\* edge ends: an index, a declared string id, a name every object inherits,
\* an id no node declares
TextSources == {JsNumber(0), JsStr("a"), JsStr("constructor")}
TextTargets == {JsNumber(1), JsStr("a"), JsNumber(7)}
TextEdges == {[source |-> a, target |-> b, label |-> ""] : a \in TextSources, b \in TextTargets}

\* the description typed into the text tab: one whose first sentence names
\* the flow, one that begins with a sentence end
D_RESET == <<"R","e","s","e","t","_","i","t",".","N","o","w","!">>
D_QUESTION == <<" ","?","W","h","y"," ","n","o","t"," ","n","o","w">>

\* the exchange when the service answers with an error status
HttpError(description) ==
    [kind |-> "httpError", nodes |-> <<>>, edges |-> <<>>, suggestions |-> <<>>,
     description |-> description]

\* three nodes, the third declared as "node-2", and one edge between the
\* index 2 and the id "node-2"; the first two nodes may declare either
ScenarioDIds == {JsUndefined, JsNumber(2), JsStr("node-2")}
ScenarioDEnds == {JsNumber(2), JsStr("node-2")}
ScenarioDResponse(id0, id1, a, b) ==
    [kind |-> "ok",
     nodes |-> <<RawNode(id0, "decision", JsBool(TRUE)), RawNode(id1, "decision", JsUndefined),
                 RawNode(JsStr("node-2"), "result", JsUndefined)>>,
     edges |-> <<[source |-> a, target |-> b, label |-> ""]>>,
     suggestions |-> <<>>, description |-> D_RESET]

\* five nodes, so that the fifth starts the second row of the grid; the
\* first and the fifth carry the title, type and position under test
T_ASK == <<"A","s","k">>
T_LONG == [i \in 1..(TITLE_MAX + 1) |-> "x"]
LayoutTitles == {<<>>, T_ASK, T_LONG}
LayoutTypes == {"result", "Result", "decision"}
LayoutXs == {JsUndefined, JsNumber(-5), JsNumber(0), JsNumber(10), JsNumber(20), JsNumber(250)}
LayoutYs == {JsUndefined, JsNumber(-5), JsNumber(400)}
LayoutNode(title, type, x, y) ==
    [RawNode(JsUndefined, type, JsUndefined) EXCEPT
        !.title = title, !.position = [x |-> x, y |-> y]]
LayoutResponse(title, type, x, y) ==
    [kind |-> "ok",
     nodes |-> [i \in 1..5 |-> IF i \in {1, 5} THEN LayoutNode(title, type, x, y)
                               ELSE RawNode(JsUndefined, "decision", JsUndefined)],
     edges |-> <<>>, suggestions |-> <<>>, description |-> D_RESET]

IsTextResponse(d) ==
    \/ \E n \in 0..MaxTextNodes, e \in 0..MaxTextEdges :
        \E ns \in [1..n -> TextNodes], es \in [1..e -> TextEdges] :
            d = [kind |-> "ok", nodes |-> ns, edges |-> es, suggestions |-> <<>>,
                 description |-> D_RESET]
    \/ \E id0, id1 \in ScenarioDIds, a, b \in ScenarioDEnds :
        d = ScenarioDResponse(id0, id1, a, b)
    \/ \E title \in LayoutTitles, type \in LayoutTypes, x \in LayoutXs, y \in LayoutYs :
        d = LayoutResponse(title, type, x, y)
    \/ d = HttpError(D_RESET)

\* the modal as constructed, and a response about to arrive
InitText ==
    /\ pending = {"text"}
    /\ importType = "text"
    /\ file = NoFile
    /\ IsTextResponse(data)
    /\ step = 0
    /\ nodes = <<>>
    /\ edges = <<>>
    /\ parseWarnings = <<>>
    /\ error = ""
    /\ ModalAsConstructed

NextText == handleGenerate

SpecText == InitText /\ [][NextText]_vars

---------------------------------------------------------------------------
(* The worked scenarios: Begin -> Card valid? -> Resolved                  *)

ScenarioShapes ==
    <<Shape("1", "Shape", "0", L_BEGIN, 1, 9),
      Shape("2", "Shape", "1", L_CARD_VALID, 1, 8),
      Shape("3", "Shape", "3", L_RESOLVED, 1, 7)>>

Perms3 == {p \in [1..3 -> 1..3] : \A i, j \in 1..3 : p[i] = p[j] => i = j}

\* the wires A -> B and B -> C; a FALSE leaves out the Connect record of that end
ScenarioWires(ends) ==
    <<[kind |-> "master", label |-> <<>>, from |-> IF ends[1] THEN "1" ELSE Null,
       to |-> IF ends[2] THEN "2" ELSE Null],
      [kind |-> "master", label |-> <<>>, from |-> IF ends[3] THEN "2" ELSE Null,
       to |-> IF ends[4] THEN "3" ELSE Null]>>

\* the three shapes in document order p, with or without masters.xml
ScenarioFile(hasMasters, p, ends) ==
    VsdxFile(hasMasters, Page([i \in 1..3 |-> ScenarioShapes[p[i]]], ScenarioWires(ends)))

AllEnds == [i \in 1..4 |-> TRUE]

IsScenarioFile(f) ==
    \E hasMasters \in BOOLEAN, p \in Perms3, ends \in [1..4 -> BOOLEAN] :
        f = ScenarioFile(hasMasters, p, ends)

InitScenario ==
    /\ pending = {"visio"}
    /\ importType = "visio"
    /\ IsScenarioFile(file)
    /\ data = NoData
    /\ step = 0
    /\ nodes = <<>>
    /\ edges = <<>>
    /\ parseWarnings = <<>>
    /\ error = ""
    /\ ModalAsConstructed

NextScenario == handleVisioFile

SpecScenario == InitScenario /\ [][NextScenario]_vars

---------------------------------------------------------------------------
(* The import modal: upload, review, Re-upload and saveFlow                *)

MIN_DESCRIPTION == 10

E_TOO_SHORT == "Please describe your flow in more detail"
E_NAME == "Please enter a flow name."
E_NO_START_MARKED == "Please mark one node as the START node."
E_MANY_STARTS == "Only one node can be the START node."
E_SAVE == "Save failed"

\* onImported was called: the parent has taken the modal away
Closed == call.pc = "done"

\* a request of saveFlow call c leaving through req(), with the step the
\* modal shows at that moment and whether it still holds the call's graph
Issued(kind, c) ==
    [kind |-> kind, step |-> step, held |-> nodes = c.nodes /\ edges = c.edges]

\* a file is dropped on, or chosen in, the upload step: handleVisioFile up
\* to its first await
chooseVisioFile(f) ==
    /\ ~Closed
    /\ step = 0
    /\ importType = "visio"
    /\ "visio" \notin pending
    /\ error' = ""
    /\ file' = f
    /\ pending' = pending \cup {"visio"}
    /\ UNCHANGED <<data, step, nodes, edges, parseWarnings, flowName, saving,
                   publishAfterSave, call, request, importType, version>>

\* Generate is pressed in the text tab: handleGenerate up to its fetch
startGenerate(d) ==
    /\ ~Closed
    /\ step = 0
    /\ importType = "text"
    /\ "text" \notin pending
    /\ IF Len(Trim(d.description)) < MIN_DESCRIPTION
       THEN /\ error' = E_TOO_SHORT
            /\ UNCHANGED <<pending, data>>
       ELSE /\ pending' = pending \cup {"text"}
            /\ data' = d
            /\ UNCHANGED error
    /\ UNCHANGED <<file, step, nodes, edges, parseWarnings, flowName, saving,
                   publishAfterSave, call, request, importType, version>>

\* a tab of the upload step is clicked: setImportType(t); setError('')
switchTab(t) ==
    /\ ~Closed
    /\ step = 0
    /\ importType' = t
    /\ error' = ""
    /\ UNCHANGED <<pending, file, data, step, nodes, edges, parseWarnings, flowName,
                   saving, publishAfterSave, call, request, version>>

\* the Re-upload button of the review step
reUpload ==
    /\ ~Closed
    /\ step = 1
    /\ step' = 0
    /\ nodes' = <<>>
    /\ edges' = <<>>
    /\ error' = ""
    /\ UNCHANGED <<pending, file, data, parseWarnings, flowName, saving,
                   publishAfterSave, call, request, importType, version>>

\* the FLOW NAME input of the review step
setFlowName(v) ==
    /\ ~Closed
    /\ step = 1
    /\ flowName' = v
    /\ UNCHANGED <<pending, file, data, step, nodes, edges, parseWarnings, error,
                   saving, publishAfterSave, call, request, importType, version>>

\* saveFlow refusing a graph without a start only
saveFlow_AllowsSeveralStarts ==
    LET starts == Cardinality({i \in DOMAIN nodes : nodes[i].is_start})
        c == [pc |-> "create", nodes |-> nodes, edges |-> edges,
              name |-> Trim(flowName), publish |-> publishAfterSave]
    IN  IF Trim(flowName) = <<>>
        THEN error' = E_NAME /\ UNCHANGED <<saving, call, request>>
        ELSE IF starts = 0
        THEN error' = E_NO_START_MARKED /\ UNCHANGED <<saving, call, request>>
        ELSE /\ saving' = TRUE
             /\ error' = ""
             /\ call' = c
             /\ request' = Issued("create", c)

\* saveFlow up to its first await, run from the render the button belongs
\* to: flowName, nodes, edges and publishAfterSave are that render's values
saveFlow ==
    LET starts == Cardinality({i \in DOMAIN nodes : nodes[i].is_start})
        c == [pc |-> "create", nodes |-> nodes, edges |-> edges,
              name |-> Trim(flowName), publish |-> publishAfterSave]
    IN  IF Trim(flowName) = <<>>
        THEN error' = E_NAME /\ UNCHANGED <<saving, call, request>>
        ELSE IF starts = 0
        THEN error' = E_NO_START_MARKED /\ UNCHANGED <<saving, call, request>>
        ELSE IF starts > 1
        THEN error' = E_MANY_STARTS /\ UNCHANGED <<saving, call, request>>
        ELSE /\ saving' = TRUE
             /\ error' = ""
             /\ call' = c
             /\ request' = Issued("create", c)

\* the Save as Draft button: setPublishAfterSave(false); saveFlow()
SaveAsDraft ==
    /\ ~Closed
    /\ step = 1
    /\ ~saving
    /\ publishAfterSave' = FALSE
    /\ saveFlow
    /\ UNCHANGED <<pending, file, data, step, nodes, edges, parseWarnings, flowName,
                   importType, version>>

\* the Save & Publish button: setPublishAfterSave(true); saveFlow()
SaveAndPublish ==
    /\ ~Closed
    /\ step = 1
    /\ ~saving
    /\ publishAfterSave' = TRUE
    /\ saveFlow
    /\ UNCHANGED <<pending, file, data, step, nodes, edges, parseWarnings, flowName,
                   importType, version>>

UNTITLED == <<"U","n","t","i","t","l","e","d"," ","s","t","e","p">>

\* a text, held as a string or as a sequence of characters, is empty
IsEmptyText(v) == ToString(v) \in {ToString(""), ToString(<<>>)}

\* n.k of a node that may lack the property
Field(n, k) == IF k \in DOMAIN n THEN n[k] ELSE Undefined

\* the nodes of the import request's body
ImportNodes(ns) ==
    [i \in DOMAIN ns |->
        LET n == ns[i] IN
        [tempId |-> n.tempId,
         type |-> n.type,
         title |-> IF IsEmptyText(n.title) THEN UNTITLED ELSE n.title,
         body |-> IF Truthy(Field(n, "body")) THEN n.body ELSE "",
         position |-> n.position,
         is_start |-> n.is_start,
         metadata |-> IF n.type = "result"
                      THEN [resolution |-> IF Truthy(Field(n, "resolution"))
                                           THEN n.resolution ELSE "",
                            escalate_to |-> Null]
                      ELSE EmptyObj]]

\* the import request's edges leaving out those into a result node
ImportEdges_IntoQuestions(ns, es) ==
    LET kept == SelectSeq(es, LAMBDA e :
                    \A i \in DOMAIN ns : ns[i].tempId = e.targetId => ns[i].type # "result")
    IN [i \in DOMAIN kept |->
           [sourceId |-> kept[i].sourceId, targetId |-> kept[i].targetId,
            label |-> IF IsEmptyText(kept[i].label) THEN "" ELSE kept[i].label]]

\* the edges of the import request's body
ImportEdges(ns, es) ==
    [i \in DOMAIN es |->
        [sourceId |-> es[i].sourceId, targetId |-> es[i].targetId,
         label |-> IF IsEmptyText(es[i].label) THEN "" ELSE es[i].label]]

\* a catch block that leaves the buttons disabled
SaveFailed_StaysSaving ==
    /\ error' = E_SAVE
    /\ call' = NoCall
    /\ UNCHANGED <<saving, request>>

\* the catch block of saveFlow
SaveFailed ==
    /\ error' = E_SAVE
    /\ saving' = FALSE
    /\ call' = NoCall
    /\ UNCHANGED request

\* the answer to POST /flows: a flow with a version, a flow without one,
\* or an error status; with a version the import request goes out
createAnswered(r) ==
    /\ call.pc = "create"
    /\ IF r = "ok"
       THEN /\ call' = [call EXCEPT !.pc = "import"]
            /\ request' = Issued("import", call)
            /\ version' = [state |-> "created", nodes |-> <<>>, edges |-> <<>>]
            /\ UNCHANGED <<error, saving>>
       ELSE /\ SaveFailed
            /\ version' = NoVersion
    /\ UNCHANGED <<pending, file, data, step, nodes, edges, parseWarnings, flowName,
                   publishAfterSave, importType>>

\* the answer to POST /versions/{id}/import, whose body is the nodes and
\* edges of the call; the endpoint stores the whole body or, answering with
\* an error, nothing. Then the publish request, or onImported when the call
\* was started without publishing
importAnswered(ok) ==
    /\ call.pc = "import"
    /\ IF ~ok THEN SaveFailed /\ UNCHANGED version
       ELSE /\ version' = [state |-> "imported", nodes |-> ImportNodes(call.nodes),
                            edges |-> ImportEdges(call.nodes, call.edges)]
            /\ IF call.publish
               THEN /\ call' = [call EXCEPT !.pc = "publish"]
                    /\ request' = Issued("publish", call)
                    /\ UNCHANGED <<error, saving>>
               ELSE /\ call' = [call EXCEPT !.pc = "done"]
                    /\ UNCHANGED <<error, saving, request>>
    /\ UNCHANGED <<pending, file, data, step, nodes, edges, parseWarnings, flowName,
                   publishAfterSave, importType>>

\* the answer to POST /flows/{id}/versions/{id}/publish: then onImported
publishAnswered(ok) ==
    /\ call.pc = "publish"
    /\ IF ok
       THEN /\ call' = [call EXCEPT !.pc = "done"]
            /\ version' = [version EXCEPT !.state = "published"]
            /\ UNCHANGED <<error, saving, request>>
       ELSE SaveFailed /\ UNCHANGED version
    /\ UNCHANGED <<pending, file, data, step, nodes, edges, parseWarnings, flowName,
                   publishAfterSave, importType>>

\* { ...n, ...changes }
Merge(n, changes) ==
    [k \in DOMAIN n \cup DOMAIN changes |->
        IF k \in DOMAIN changes THEN changes[k] ELSE n[k]]

\* updateNode setting the flag of the edited node only
UpdatedNodes_KeepsOtherStarts(ns, tempId, changes) ==
    [i \in DOMAIN ns |-> IF ns[i].tempId # tempId THEN ns[i] ELSE Merge(ns[i], changes)]

\* the two setNodes updaters of updateNode, applied in turn
UpdatedNodes(ns, tempId, changes) ==
    LET first == [i \in DOMAIN ns |->
                     IF ns[i].tempId # tempId THEN ns[i] ELSE Merge(ns[i], changes)]
        second == [i \in DOMAIN first |->
                      IF first[i].tempId = tempId THEN Merge(first[i], changes)
                      ELSE Merge(first[i], [is_start |-> FALSE])]
    IN IF "is_start" \in DOMAIN changes /\ changes.is_start = TRUE THEN second ELSE first

\* a field of the node editor is changed: updateNode(node.tempId, changes)
updateNode(tempId, changes) ==
    /\ ~Closed
    /\ step = 1
    /\ nodes' = UpdatedNodes(nodes, tempId, changes)
    /\ UNCHANGED <<pending, file, data, step, edges, parseWarnings, error, flowName,
                   saving, publishAfterSave, call, request, importType, version>>

\* the label of a connection is changed: updateEdge(edge.tempId, {label})
updateEdge(tempId, changes) ==
    /\ ~Closed
    /\ step = 1
    /\ edges' = [i \in DOMAIN edges |->
                    IF edges[i].tempId = tempId THEN Merge(edges[i], changes) ELSE edges[i]]
    /\ UNCHANGED <<pending, file, data, step, nodes, parseWarnings, error, flowName,
                   saving, publishAfterSave, call, request, importType, version>>

\* the delete button of a connection: deleteEdge(edge.tempId)
deleteEdge(tempId) ==
    /\ ~Closed
    /\ step = 1
    /\ edges' = SelectSeq(edges, LAMBDA e : e.tempId # tempId)
    /\ UNCHANGED <<pending, file, data, step, nodes, parseWarnings, error, flowName,
                   saving, publishAfterSave, call, request, importType, version>>

\* the most connections the review step is given
MaxEdges == 2

\* the Add button of the connection row, shown for a node that is no result,
\* with a target chosen among the other nodes: add() calling addEdge, which
\* names the edge after the clock
addEdge(sourceId, targetId, label, now) ==
    /\ ~Closed
    /\ step = 1
    /\ Len(edges) < MaxEdges
    /\ \E i \in DOMAIN nodes : nodes[i].tempId = sourceId /\ nodes[i].type # "result"
    /\ \E i \in DOMAIN nodes : nodes[i].tempId = targetId
    /\ targetId # sourceId
    /\ edges' = Append(edges, [tempId |-> "import-edge-" \o now, sourceId |-> sourceId,
                                targetId |-> targetId, label |-> label])
    /\ UNCHANGED <<pending, file, data, step, nodes, parseWarnings, error, flowName,
                   saving, publishAfterSave, call, request, importType, version>>

\* the files tried in the modal: files that fail, a page without a labelled
\* shape, and a start wired to a step
ModalFiles ==
    {BadFile(k) : k \in {"corrupt", "nopages"}}
    \cup {VsdxFile(FALSE, ClassifyPage("none", [type |-> "Shape", master |-> Null,
                                                 text |-> L_BLANK])),
          VsdxFile(TRUE, StrayPage(<<"1", "2">>, "99"))}

\* the exchanges with the generation service tried in the modal (the
\* Generate button is disabled for a description shorter than ten characters)
ModalExchanges ==
    {[kind |-> "ok",
      nodes |-> <<RawNode(JsUndefined, "decision", JsUndefined),
                  RawNode(JsStr("a"), "result", JsUndefined)>>,
      edges |-> <<[source |-> JsNumber(0), target |-> JsStr("a"), label |-> ""]>>,
      suggestions |-> <<>>, description |-> D_QUESTION]}
    \cup {HttpError(D_RESET)}

\* the names typed into the FLOW NAME input
FlowNames == {<<>>, <<"F","l","o","w">>}

\* the modal as constructed
InitModal ==
    /\ pending = {}
    /\ importType = "text"
    /\ file = NoFile
    /\ data = NoData
    /\ step = 0
    /\ nodes = <<>>
    /\ edges = <<>>
    /\ parseWarnings = <<>>
    /\ error = ""
    /\ ModalAsConstructed

NextModal ==
    \/ \E t \in {"text", "visio"} : switchTab(t)
    \/ \E f \in ModalFiles : chooseVisioFile(f)
    \/ handleVisioFile
    \/ \E d \in ModalExchanges : startGenerate(d)
    \/ handleGenerate
    \/ reUpload
    \/ \E v \in FlowNames : setFlowName(v)
    \/ SaveAsDraft
    \/ SaveAndPublish
    \/ \E r \in {"ok", "noVersion", "fail"} : createAnswered(r)
    \/ \E ok \in BOOLEAN : importAnswered(ok)
    \/ \E ok \in BOOLEAN : publishAnswered(ok)

SpecModal == InitModal /\ [][NextModal]_vars

---------------------------------------------------------------------------
(* The review step: the node editor, the connection rows and saveFlow      *)

\* the file reviewed: a start wired to a step
ReviewFiles == {VsdxFile(TRUE, StrayPage(<<"1", "2">>, "99"))}

\* the exchange reviewed: a decision and a result, both flagged as start and
\* not connected
ReviewExchanges ==
    {[kind |-> "ok",
      nodes |-> <<RawNode(JsUndefined, "decision", JsBool(TRUE)),
                  RawNode(JsStr("a"), "result", JsBool(TRUE))>>,
      edges |-> <<>>, suggestions |-> <<>>, description |-> D_RESET]}

\* what is typed into the title and label inputs, and what the clock reads
\* when Add is pressed (two presses may read the same millisecond)
ReviewTitles == {<<>>}
ReviewLabels == {<<>>}
ClockValues == {"1700000000000", "1700000000001"}

\* the modal as constructed, and an import about to complete
InitReview ==
    /\ \/ pending = {"visio"} /\ importType = "visio" /\ file \in ReviewFiles
          /\ data = NoData
       \/ pending = {"text"} /\ importType = "text" /\ file = NoFile
          /\ data \in ReviewExchanges
    /\ step = 0
    /\ nodes = <<>>
    /\ edges = <<>>
    /\ parseWarnings = <<>>
    /\ error = ""
    /\ ModalAsConstructed

\* the schedule explored: the graph is edited until the backend has accepted
\* a save's first request, and saved from then on
Editing == call = NoCall /\ version = NoVersion

NextReview ==
    \/ handleVisioFile
    \/ handleGenerate
    \/ \E i \in DOMAIN nodes, t \in {"question", "result"} :
            Editing /\ updateNode(nodes[i].tempId, [type |-> t])
    \/ \E i \in DOMAIN nodes :
            Editing /\ updateNode(nodes[i].tempId, [is_start |-> ~nodes[i].is_start])
    \/ \E i \in DOMAIN nodes, v \in ReviewTitles :
            Editing /\ updateNode(nodes[i].tempId, [title |-> v])
    \/ \E i \in DOMAIN edges, v \in ReviewLabels :
            Editing /\ updateEdge(edges[i].tempId, [label |-> v])
    \/ \E i \in DOMAIN edges : Editing /\ deleteEdge(edges[i].tempId)
    \/ \E i, j \in DOMAIN nodes, l \in ReviewLabels, now \in ClockValues :
            Editing /\ addEdge(nodes[i].tempId, nodes[j].tempId, l, now)
    \/ SaveAsDraft
    \/ SaveAndPublish
    \/ \E r \in {"ok", "noVersion", "fail"} : createAnswered(r)
    \/ \E ok \in BOOLEAN : importAnswered(ok)
    \/ \E ok \in BOOLEAN : publishAnswered(ok)

SpecReview == InitReview /\ [][NextReview]_vars

---------------------------------------------------------------------------
(* Properties of the document path                                         *)

StartNodes == {i \in DOMAIN nodes : nodes[i].is_start}

\* the constants of the Shape loop for the uploaded page, its retained
\* shapes and its raw edges
FileViews ==
    ShapeViews(file.page.shapes, ConnectorMapOf(file.page.connects),
               parseMasters(IF file.hasMasters THEN file.masters ELSE <<>>))
FileRawShapes == CollectRawShapes(FileViews)
FileRawEdges == CollectEdges(FileViews, <<>>)

\* the `to` ends of the wires that have both ends recorded
WiredTargets ==
    LET cmap == ConnectorMapOf(file.page.connects) IN
    {cmap[k].to : k \in {k \in DOMAIN cmap : Truthy(cmap[k].from) /\ Truthy(cmap[k].to)}}

IsCandidate(s) == s.shapeId \notin WiredTargets

\* node n was made from retained shape s
NodeOfShape(n, s) ==
    /\ n.visioId = s.shapeId
    /\ n.title = s.label
    /\ n.position = [x |-> Max(MIN_COORD, s.pinX * PX_PER_INCH),
                     y |-> Max(MIN_COORD, (PAGE_HEIGHT_IN - s.pinY) * PX_PER_INCH)]

\* C1: document path, single start: when the parse returns at least one node,
\* exactly one returned node has is_start = true, whatever the shape ids are.
C1_DocSingleStart ==
    (step = 1 /\ nodes # <<>>) => Cardinality(StartNodes) = 1

\* C3: edge referential integrity: each returned edge's sourceId and targetId
\* are tempIds of nodes of the same graph.
C3_EdgesReferToNodes ==
    step = 1 =>
        \A i \in DOMAIN edges :
            /\ \E j \in DOMAIN nodes : edges[i].sourceId = nodes[j].tempId
            /\ \E j \in DOMAIN nodes : edges[i].targetId = nodes[j].tempId

\* C4: document path, start override: a node returned as the start has type
\* question, whatever its stencil, also when its stencil is a terminator and
\* it is the only shape no wire leads to.
C4_StartIsQuestion ==
    step = 1 => \A i \in StartNodes : nodes[i].type = "question"

\* a start with a terminator stencil that is the unique entry point of a
\* wired page
C4_TerminatorStartImported ==
    /\ step = 1
    /\ edges # <<>>
    /\ \E i \in StartNodes :
        /\ nodes[i].masterName \in TERMINATOR_KEYS
        /\ nodes[i].type = "question"
        /\ \A e \in DOMAIN edges : edges[e].targetId # nodes[i].tempId
        /\ \A j \in DOMAIN nodes \ {i} :
            \E e \in DOMAIN edges : edges[e].targetId = nodes[j].tempId

\* C6: start candidates and terminator preference: the retained shapes no
\* complete wire leads to are the candidates, and when some candidate has a
\* terminator stencil every node returned as the start is a candidate with a
\* terminator stencil.
C6_TerminatorCandidatePreferred ==
    step = 1 =>
        /\ NoIncoming(FileRawShapes, FileRawEdges) = SelectSeq(FileRawShapes, IsCandidate)
        /\ (\E k \in DOMAIN FileRawShapes :
                IsCandidate(FileRawShapes[k]) /\ FileRawShapes[k].isTerminator)
            => \A i \in StartNodes :
                \E k \in DOMAIN FileRawShapes :
                    /\ NodeOfShape(nodes[i], FileRawShapes[k])
                    /\ IsCandidate(FileRawShapes[k])
                    /\ FileRawShapes[k].isTerminator

\* C7: positional tie-break: when no candidate has a terminator stencil,
\* every node returned as the start is the candidate with the greatest PinY
\* and, among equal PinY, the smallest PinX; without candidates the rule
\* ranges over all retained shapes.
C7_TopLeftCandidateIsStart ==
    step = 1 =>
        LET cands == SelectSeq(FileRawShapes, IsCandidate)
            pool == IF cands = <<>> THEN FileRawShapes ELSE cands
        IN (\A k \in DOMAIN cands : ~cands[k].isTerminator)
            => \A i \in StartNodes :
                \E k \in DOMAIN pool :
                    /\ NodeOfShape(nodes[i], pool[k])
                    /\ \A m \in DOMAIN pool : ~ShapeBefore(pool[m], pool[k])

\* node n was made from the Shape element sh of the uploaded page
NodeOfFileShape(n, sh) ==
    NodeOfShape(n, [shapeId |-> sh.ID, label |-> ShapeLabel(sh),
                    pinX |-> sh.PinX, pinY |-> sh.PinY])

\* the shape's Master names an element of a catalog that was read
HasCatalogEntry(sh) ==
    /\ file.hasMasters
    /\ Truthy(sh.Master)
    /\ \E m \in DOMAIN file.masters : file.masters[m].ID = sh.Master

LabelHasVocabulary(title) ==
    Includes(ToLowerCase(title), ESCALAT) \/ Includes(ToLowerCase(title), RESOLV)

\* the type the claim gives a non-start node made from sh, the label words
\* being those of labelSaysResult
ClassifiedAs(n, sh, labelSaysResult) ==
    IF HasCatalogEntry(sh)
    THEN n.type = (IF n.masterName \in RESULT_MASTERS THEN "result" ELSE "question")
    ELSE n.type = (IF labelSaysResult THEN "result" ELSE "question")

\* C8 as stated: a non-start node with catalog metadata is a result exactly
\* when its stencil name is in the terminator/result set and a question
\* otherwise; a non-start node without metadata is a result exactly when its
\* label contains the escalation/resolution vocabulary.
C8_VocabularyDecidesUnlisted ==
    step = 1 =>
        \A i \in DOMAIN nodes \ StartNodes : \A k \in DOMAIN file.page.shapes :
            NodeOfFileShape(nodes[i], file.page.shapes[k])
                => ClassifiedAs(nodes[i], file.page.shapes[k],
                                LabelHasVocabulary(nodes[i].title))

\* C8, amended: as stated, but a non-start node without metadata is a result
\* exactly when its label contains the escalation/resolution vocabulary or
\* begins with "result".
C8_NonStartClassification ==
    step = 1 =>
        \A i \in DOMAIN nodes \ StartNodes : \A k \in DOMAIN file.page.shapes :
            NodeOfFileShape(nodes[i], file.page.shapes[k])
                => ClassifiedAs(nodes[i], file.page.shapes[k],
                                \/ LabelHasVocabulary(nodes[i].title)
                                \/ StartsWith(ToLowerCase(nodes[i].title), RESULT_PREFIX))

\* a non-start shape without metadata labelled "Results" was imported as a
\* result, beside a non-start terminator of the catalog
C8_ResultPrefixImported ==
    /\ step = 1
    /\ \E i \in DOMAIN nodes \ StartNodes, k \in DOMAIN file.page.shapes :
        /\ NodeOfFileShape(nodes[i], file.page.shapes[k])
        /\ ~HasCatalogEntry(file.page.shapes[k])
        /\ nodes[i].title = L_RESULTS
        /\ nodes[i].type = "result"

IsScenarioB == \E p \in Perms3 : file = ScenarioFile(FALSE, p, AllEnds)

NodeTyped(title, type) ==
    \E i \in DOMAIN nodes : nodes[i].title = title /\ nodes[i].type = type

ScenarioBCounts ==
    /\ step = 1
    /\ Len(nodes) = 3
    /\ Len(edges) = 2
    /\ \E i \in DOMAIN parseWarnings : parseWarnings[i] = W_NO_MASTERS

\* C9 as stated: Scenario B (Begin -> Card valid? -> Resolved, no catalog)
\* yields 3 nodes and 2 edges with the missing-catalog warning, and all of
\* A, B and C are questions.
C9_ScenarioB_AllQuestion ==
    (pending = {} /\ IsScenarioB) =>
        /\ ScenarioBCounts
        /\ NodeTyped(L_BEGIN, "question")
        /\ NodeTyped(L_CARD_VALID, "question")
        /\ NodeTyped(L_RESOLVED, "question")

\* C9, amended: Scenario B yields 3 nodes and 2 edges with the
\* missing-catalog warning; A and B are questions and C, whose label
\* "Resolved" contains the resolution vocabulary, is a result.
C9_ScenarioB_ResolvedIsResult ==
    (pending = {} /\ IsScenarioB) =>
        /\ ScenarioBCounts
        /\ NodeTyped(L_BEGIN, "question")
        /\ NodeTyped(L_CARD_VALID, "question")
        /\ NodeTyped(L_RESOLVED, "result")

\* Scenario B was imported
C9_ScenarioB_Imported ==
    /\ pending = {}
    /\ IsScenarioB
    /\ step = 1
    /\ Len(nodes) = 3
    /\ \E i \in StartNodes : nodes[i].title = L_BEGIN

\* the connectors of the page, and those with an end unrecorded
FileWires == {file.page.connects[i].FromSheet : i \in DOMAIN file.page.connects}
HalfWires ==
    LET cmap == ConnectorMapOf(file.page.connects) IN
    {k \in FileWires : ~(Truthy(cmap[Key(k)].from) /\ Truthy(cmap[Key(k)].to))}

\* C10: a connector with its `to` or `from` record missing contributes no
\* edge, the import does not fail, and the warnings hold one that counts
\* the dropped wires.
C10_DroppedWiresCounted ==
    (pending = {} /\ file.kind = "vsdx" /\ FileRawShapes # <<>> /\ HalfWires # {}) =>
        /\ step = 1
        /\ error = ""
        /\ Len(edges) <= Cardinality(FileWires) - Cardinality(HalfWires)
        /\ \E i \in DOMAIN parseWarnings :
            /\ parseWarnings[i].w = W_DROPPED(0).w
            /\ parseWarnings[i].a >= 1

\* the nodes as the rawShapes loop leaves them, before the fallback
BuiltNodes ==
    BuildNodes(RawShapesAfterStart(FileRawShapes, FileRawEdges),
               StartShapeId(FileRawShapes, FileRawEdges), <<>>, EmptyObj).nodes

\* the warnings handleVisioFile can push that do not speak of the start
StartlessWarnings == {W_NO_MASTERS.w, W_NO_CONNECTORS.w, W_DETECTED(0, 0).w}

\* every retained shape is the target of a complete wire
FullyCyclic ==
    /\ file.kind = "vsdx"
    /\ FileRawShapes # <<>>
    /\ \A k \in DOMAIN FileRawShapes : ~IsCandidate(FileRawShapes[k])

\* C11: Scenario E, fully cyclic wiring: the fallback after assembly is the
\* step that assigns the start, exactly one node is the start, and the
\* warnings hold one about the fallback.
C11_CyclicFallbackWarned ==
    (step = 1 /\ FullyCyclic) =>
        /\ FallbackFires(BuiltNodes)
        /\ Cardinality(StartNodes) = 1
        /\ \E i \in DOMAIN parseWarnings : parseWarnings[i].w \notin StartlessWarnings

\* the upload has been handled and the package was a readable .vsdx with
\* a page and no masters.xml
ParsedWithoutCatalog == pending = {} /\ file.kind = "vsdx" /\ ~file.hasMasters

\* the import succeeded with nodes and the missing-catalog warning
DegradedImport ==
    /\ step = 1
    /\ error = ""
    /\ nodes # <<>>
    /\ \E i \in DOMAIN parseWarnings : parseWarnings[i] = W_NO_MASTERS

StencilKeyOf(sh) ==
    MasterKeyOrEmpty(ShapeMasterInfo(sh,
        parseMasters(IF file.hasMasters THEN file.masters ELSE <<>>)))

\* the Shape element is identified as a connector: by its Type, by its
\* stencil name, or as the FromSheet of a Connect record
IdentifiedAsConnector(sh) ==
    \/ sh.Type = "Edge"
    \/ StencilKeyOf(sh) \in CONNECTOR_MASTERS
    \/ sh.ID \in FileWires

\* C15: no connector leakage: no returned node, the start included, comes
\* from a Shape element whose Type is Edge, whose stencil name is in the
\* connector-name set, or whose id is the connector id of a Connect record.
C15_NoConnectorLeakage ==
    step = 1 =>
        \A i \in DOMAIN nodes : \A k \in DOMAIN file.page.shapes :
            NodeOfFileShape(nodes[i], file.page.shapes[k])
                => ~IdentifiedAsConnector(file.page.shapes[k])

\* a page was imported that holds a labelled connector known by its Connect
\* records alone, next to the shapes that became the nodes
C15_LabelledConnectorSkipped ==
    /\ step = 1
    /\ Len(nodes) = 2
    /\ Len(edges) = 1
    /\ \E k \in DOMAIN file.page.shapes :
        /\ file.page.shapes[k].ID \in FileWires
        /\ file.page.shapes[k].Type # "Edge"
        /\ StencilKeyOf(file.page.shapes[k]) = <<>>
        /\ ShapeLabel(file.page.shapes[k]) # <<>>
        /\ edges[1].label = ShapeLabel(file.page.shapes[k])

\* the uploaded page without the Connect records whose FromPart is neither
\* 9 nor 12
RecognisedConnects ==
    SelectSeq(file.page.connects, LAMBDA c : c.FromPart \in {"9", "12"})
PageOfRecognisedConnects == [file.page EXCEPT !.connects = RecognisedConnects]

\* C16: unrecognised discriminators are ignored: the graph returned for a
\* page is the graph returned for the same page without its Connect records
\* whose FromPart is neither 9 nor 12.
C16_StrayConnectIgnored ==
    (pending = {} /\ file.kind = "vsdx") =>
        LET g == parseVisioXml(PageOfRecognisedConnects,
                               IF file.hasMasters THEN file.masters ELSE <<>>)
        IN IF step = 1 THEN nodes = g.nodes /\ edges = g.edges
           ELSE g.nodes = <<>>

\* a Shape element that is no connector and whose label is empty after
\* trimming
DiscardedForLabel(sh) == ~IdentifiedAsConnector(sh) /\ Trim(sh.Text) = <<>>

\* the ids of the discarded Shape elements of the uploaded page
DiscardedIds ==
    {file.page.shapes[k].ID :
        k \in {j \in DOMAIN file.page.shapes : DiscardedForLabel(file.page.shapes[j])}}

\* C17: empty-label shapes are discarded entirely: no node comes from a
\* shape that is no connector and has an empty label after trimming, every
\* returned node has a non-empty title, and a wire with such a shape at
\* either end yields no returned edge.
C17_BlankShapesDiscarded ==
    step = 1 =>
        /\ \A i \in DOMAIN nodes : Trim(nodes[i].title) # <<>>
        /\ \A i \in DOMAIN nodes : \A k \in DOMAIN file.page.shapes :
                DiscardedForLabel(file.page.shapes[k])
                    => ~NodeOfFileShape(nodes[i], file.page.shapes[k])
        /\ \A r \in DOMAIN FileRawEdges :
                (FileRawEdges[r].visioSrcId \in DiscardedIds
                 \/ FileRawEdges[r].visioTgtId \in DiscardedIds)
                    => \A e \in DOMAIN edges : edges[e].tempId # FileRawEdges[r].tempId

\* C20: fallback after assembly: when the rawShapes loop leaves a non-empty
\* node list without a start, the returned list differs from it in one
\* node only, a node of smallest (y, then x) position, which has is_start
\* = true and type question, and the warnings hold one about the fallback.
C20_FallbackAssignsAndWarns ==
    (step = 1 /\ FallbackFires(BuiltNodes)) =>
        /\ \E i \in DOMAIN BuiltNodes :
            /\ \A j \in DOMAIN BuiltNodes : ~NodeBefore(BuiltNodes[j], BuiltNodes[i])
            /\ nodes = [BuiltNodes EXCEPT ![i].is_start = TRUE, ![i].type = "question"]
        /\ \E i \in DOMAIN parseWarnings : parseWarnings[i].w \notin StartlessWarnings

\* the nodes no returned edge leads to
\* the shapes of the page carry pairwise distinct, non-empty ids, none of them
\* a name every object inherits
WellFormedIds ==
    /\ \A a, b \in DOMAIN file.page.shapes :
            a # b => file.page.shapes[a].ID # file.page.shapes[b].ID
    /\ \A a \in DOMAIN file.page.shapes :
            Truthy(file.page.shapes[a].ID) /\ file.page.shapes[a].ID \notin ObjectProtoKeys

NodesWithoutIncoming ==
    {i \in DOMAIN nodes : \A e \in DOMAIN edges : edges[e].targetId # nodes[i].tempId}

\* C23: the start has no incoming edge: when some returned node is the target
\* of no returned edge, no returned edge leads to a node with is_start = true.
C23_StartHasNoIncoming ==
    (step = 1 /\ WellFormedIds /\ NodesWithoutIncoming # {})
        => StartNodes \subseteq NodesWithoutIncoming

\* C27: canonical ids follow document order: the returned nodes are the
\* retained shapes in document order, the k-th of them numbered
\* import-node-(k-1), whatever the wiring.
C27_IdsFollowDocumentOrder ==
    step = 1 =>
        /\ Len(nodes) = Len(FileRawShapes)
        /\ \A k \in DOMAIN nodes :
            /\ NodeOfShape(nodes[k], FileRawShapes[k])
            /\ nodes[k].tempId = "import-node-" \o ToString(k - 1)

---------------------------------------------------------------------------
(* Properties of the import modal                                          *)

\* C18: fatal errors abort before review: when handleVisioFile ends for a
\* file that cannot be opened, has no page entry or yields no node, the
\* error message is non-empty, the handler leaves the modal on the step it
\* is on (the upload step the file was chosen on), the nodes, edges and
\* warnings are what they were, and no upload is left pending that would
\* run the handler again.
C18_FatalErrorsAbort ==
    [][(handleVisioFile /\ ~VisioOutcome(file).ok) =>
            /\ error' # ""
            /\ step' = step
            /\ UNCHANGED <<nodes, edges, parseWarnings>>
            /\ "visio" \notin pending']_vars

\* an upload has failed on the upload step reached by Re-upload, with the
\* warnings of the earlier import still held
C18_FailedAfterReupload ==
    /\ pending = {}
    /\ step = 0
    /\ file.kind \in {"corrupt", "nopages", "vsdx"}
    /\ error \in {E_PARSE, E_NO_PAGES, E_NO_SHAPES}
    /\ nodes = <<>>
    /\ parseWarnings # <<>>

\* C19: persistence only from the review step: every request of saveFlow
\* (create flow, import, publish) leaves while the modal shows step 1 and
\* holds the graph the call persists.
C19_RequestsFromReview ==
    request.kind # "none" => request.step = 1 /\ request.held

---------------------------------------------------------------------------
(* Properties of the text path                                             *)

\* the nodes of the response that carry a truthy is_start
Flagged == {i \in DOMAIN data.nodes : ToBoolean(data.nodes[i].is_start)}

\* C2: text path, single start: the graph handed on has exactly one start;
\* with no node flagged it is the first node; with several flagged it is the
\* first flagged node and a warning is recorded.
C2_TextSingleStart ==
    step = 1 =>
        /\ Cardinality(StartNodes) = 1
        /\ Flagged = {} => nodes[1].is_start
        /\ Cardinality(Flagged) > 1 =>
            /\ \A i \in Flagged : nodes[i].is_start <=> (\A j \in Flagged : i <= j)
            /\ \E i \in DOMAIN parseWarnings :
                parseWarnings[i].w \notin {W_AI_GENERATED.w, W_DROPPED(0).w}

\* C5: text path: the start of the graph handed on has type question, both
\* when the service flagged it and when the first node was forced.
C5_TextStartIsQuestion ==
    step = 1 => \A i \in StartNodes : nodes[i].type = "question"

\* the nodes of the response that declare the id v names, and the node
\* whose 0-based index v names
DeclaringNodes(v) ==
    {i \in DOMAIN data.nodes :
        /\ data.nodes[i].id.t \notin {"undefined", "null"}
        /\ JsString(data.nodes[i].id) = JsString(v)}
IndexNodes(v) == {i \in DOMAIN data.nodes : ToString(i - 1) = JsString(v)}
Resolvable(v) == DeclaringNodes(v) \cup IndexNodes(v) # {}

\* tempId belongs to a node that declared v or, when none did, to the node
\* at index v
ResolvedTo(v, tempId) ==
    \E i \in (IF DeclaringNodes(v) # {} THEN DeclaringNodes(v) ELSE IndexNodes(v)) :
        tempId = nodes[i].tempId

\* the edges handed on that were made from the k-th edge of the response
EdgesOf(k) == {j \in DOMAIN edges : edges[j].tempId = "import-edge-" \o ToString(k - 1)}

DroppedNotices == {i \in DOMAIN parseWarnings : parseWarnings[i].w = W_DROPPED(0).w}

\* C13: text path: with a successful response handleGenerate reports failure
\* exactly when the node list is empty; otherwise it hands the graph on
\* however many edges were dropped, and the warnings hold a
\* dropped-connection message, with the count input edges minus output
\* edges, exactly when that count is positive.
C13_FailsOnlyWithoutNodes ==
    (pending = {} /\ data.kind = "ok") =>
        /\ error # "" <=> data.nodes = <<>>
        /\ step = 1 <=> data.nodes # <<>>
        /\ data.nodes # <<>> =>
            /\ Len(nodes) = Len(data.nodes)
            /\ DroppedNotices # {} <=> Len(data.edges) - Len(edges) > 0
            /\ \A i \in DroppedNotices : parseWarnings[i].a = Len(data.edges) - Len(edges)

\* a graph was handed on although its only edge was dropped, with the
\* warning counting one
C13_AllEdgesDroppedImported ==
    /\ step = 1
    /\ data.edges # <<>>
    /\ edges = <<>>
    /\ \E i \in DroppedNotices : parseWarnings[i].a = Len(data.edges)

\* the title, type and tempId the adapter gives to the input node at index i
NormalizedIdTitleType(n, raw, i) ==
    /\ n.tempId = "import-node-" \o ToString(i)
    /\ n.type = (IF raw.type = "result" THEN "result" ELSE "question")
    /\ LET t == IF raw.title # <<>> THEN raw.title
                 ELSE <<"S","t","e","p"," ">> \o NumText(i + 1)
       IN n.title = SubSeq(t, 1, IF Len(t) < TITLE_MAX THEN Len(t) ELSE TITLE_MAX)

\* an input coordinate with negative and undefined values raised to 0
ClampedAtZero(v) == IF v.t = "number" /\ v.n >= 0 THEN v.n ELSE 0

\* C21 as stated: one node per input node, with tempId import-node-i, type
\* result only for the input type result, the input title or "Step i+1",
\* and the input coordinates with negative or undefined values raised to 0.
C21_CoordinatesClampedAtZero ==
    (step = 1 /\ data.kind = "ok") =>
        /\ Len(nodes) = Len(data.nodes)
        /\ \A k \in DOMAIN nodes :
            /\ NormalizedIdTitleType(nodes[k], data.nodes[k], k - 1)
            /\ nodes[k].position = [x |-> ClampedAtZero(data.nodes[k].position.x),
                                    y |-> ClampedAtZero(data.nodes[k].position.y)]

\* C21, amended: one node per input node, with tempId import-node-i, type
\* result only for the input type result, the input title or "Step i+1" cut
\* to 80 characters; a numeric coordinate below 20 becomes 20, one of 20 or
\* more passes unchanged, and a missing coordinate is the grid position of
\* index i: x = (i mod 4) * 300 + 60, y = floor(i / 4) * 180 + 60.
C21_CoordinatesFlooredOrGrid ==
    (step = 1 /\ data.kind = "ok") =>
        /\ Len(nodes) = Len(data.nodes)
        /\ \A k \in DOMAIN nodes :
            LET raw == data.nodes[k]
                i == k - 1
            IN  /\ NormalizedIdTitleType(nodes[k], raw, i)
                /\ nodes[k].position.x =
                        (IF raw.position.x.t # "number" THEN (i % 4) * 300 + 60
                         ELSE IF raw.position.x.n < 20 THEN 20 ELSE raw.position.x.n)
                /\ nodes[k].position.y =
                        (IF raw.position.y.t # "number" THEN (i \div 4) * 180 + 60
                         ELSE IF raw.position.y.n < 20 THEN 20 ELSE raw.position.y.n)

\* a response was adapted whose fifth node has a negative x, no y and no
\* title
C21_FifthNodePlaced ==
    /\ step = 1
    /\ data.kind = "ok"
    /\ Len(data.nodes) = 5
    /\ data.nodes[5].position.x.t = "number" /\ data.nodes[5].position.x.n < 0
    /\ data.nodes[5].position.y.t = "undefined"
    /\ data.nodes[5].title = <<>>
    /\ nodes[5].position = [x |-> 20, y |-> 240]
    /\ nodes[5].title = <<"S","t","e","p"," ","5">>

---------------------------------------------------------------------------
(* Properties of the review step and of saveFlow                           *)

OneStart(ns) == Cardinality({i \in DOMAIN ns : ns[i].is_start}) = 1

\* one of the two save buttons is pressed
SaveClick == SaveAsDraft \/ SaveAndPublish

\* C22: exactly one start is enforced before persistence: the nodes a
\* saveFlow call holds for its requests, and the nodes the import request
\* has stored, contain exactly one node with is_start = true; a save button
\* pressed on a graph with no start or with several issues no request and
\* sets an error message.
C22_ExactlyOneStartSent ==
    /\ [](/\ call.pc # "idle" => OneStart(call.nodes)
          /\ version.state \in {"imported", "published"} => OneStart(version.nodes))
    /\ [][(SaveClick /\ ~OneStart(nodes)) =>
              /\ error' \in {E_NAME, E_NO_START_MARKED, E_MANY_STARTS}
              /\ UNCHANGED <<saving, call, request, version>>]_vars

\* the generated graph, imported with two starts, was stored after the
\* review left it one
C22_SavedAfterStartEdited ==
    /\ importType = "text"
    /\ version.state = "imported"
    /\ OneStart(nodes)

\* the stored version v holds the nodes ns and the edges es, all of them
HoldsGraph(v, ns, es) ==
    /\ Len(v.nodes) = Len(ns)
    /\ \A i \in DOMAIN ns :
        /\ v.nodes[i].tempId = ns[i].tempId
        /\ v.nodes[i].type = ns[i].type
        /\ v.nodes[i].is_start = ns[i].is_start
    /\ Len(v.edges) = Len(es)
    /\ \A i \in DOMAIN es :
        /\ v.edges[i].sourceId = es[i].sourceId
        /\ v.edges[i].targetId = es[i].targetId

Distinct(ids) == \A i, j \in DOMAIN ids : i # j => ids[i] # ids[j]

\* C28: identifier uniqueness: on the review step the node tempIds are
\* pairwise distinct and so are the edge tempIds, after either import and
\* after every addEdge and deleteEdge.
C28_TempIdsDistinct ==
    step = 1 =>
        /\ Distinct([i \in DOMAIN nodes |-> nodes[i].tempId])
        /\ Distinct([i \in DOMAIN edges |-> edges[i].tempId])

\* node k after the step is node k before it but for is_start
SameButStart(k) == nodes'[k] = Merge(nodes[k], [is_start |-> nodes'[k].is_start])

\* the frame of updateNode(nodes[i].tempId, changes)
UpdateNodeFrame(i, exclusive) ==
    /\ UNCHANGED edges
    /\ Len(nodes') = Len(nodes)
    /\ \A k \in DOMAIN nodes : nodes'[k].tempId = nodes[k].tempId
    /\ IF exclusive
       THEN /\ \A k \in DOMAIN nodes : nodes'[k].is_start <=> k = i
            /\ \A k \in DOMAIN nodes \ {i} : SameButStart(k)
       ELSE \A k \in DOMAIN nodes \ {i} : nodes'[k] = nodes[k]

\* C29: exclusive start toggle with frame: updateNode(id, {is_start: true})
\* leaves node id the only start and changes nothing but is_start on the
\* other nodes; any other updateNode changes node id only; no updateNode
\* changes the edges or a tempId.
C29_UpdateNodeFrame ==
    [][\A i \in DOMAIN nodes :
        /\ \A b \in BOOLEAN :
              updateNode(nodes[i].tempId, [is_start |-> b]) => UpdateNodeFrame(i, b)
        /\ \A t \in {"question", "result"} :
              updateNode(nodes[i].tempId, [type |-> t]) => UpdateNodeFrame(i, FALSE)
        /\ \A v \in ReviewTitles :
              updateNode(nodes[i].tempId, [title |-> v]) => UpdateNodeFrame(i, FALSE)]_vars

\* the start of the uploaded page was moved from its first node to its second
C29_StartMoved ==
    /\ step = 1
    /\ importType = "visio"
    /\ Len(nodes) = 2
    /\ ~nodes[1].is_start
    /\ nodes[2].is_start

\* C25: save mode follows the button pressed: while a save is under way
\* publishAfterSave is what its button set, false for Save as Draft and true
\* for Save & Publish; the publish request is issued only in a save started
\* with Save & Publish, and such a save ends with the version published.
C25_ModeFollowsButton ==
    /\ call.pc = "publish" => publishAfterSave
    /\ (call.pc = "done" /\ publishAfterSave) => version.state = "published"

\* the graph under review came through handleImageParsed, which puts the
\* notice of generation first among the warnings
FromTextPath == parseWarnings # <<>> /\ parseWarnings[1] = W_AI_GENERATED

\* C26: the reviewed graph and its source stay consistent: the graph on the
\* review step was produced by the import path importType names, and the
\* result of a generation request arriving on the review step leaves the
\* nodes and edges under review alone.
C26_GraphMatchesImportType ==
    /\ [](step = 1 => (importType = "text" <=> FromTextPath))
    /\ [][(handleGenerate /\ step = 1) => UNCHANGED <<nodes, edges>>]_vars

\* C30: save completion protocol: onImported is called only once the flow
\* was created, the import stored and, when the call was to publish, the
\* version published, and nothing follows it; a failed request sets an error
\* message, ends saving and leaves the nodes and edges under review alone;
\* no save button acts while saving is true.
C30_SaveProtocol ==
    /\ [](Closed => version.state = (IF call.publish THEN "published" ELSE "imported"))
    /\ [][Closed => UNCHANGED call]_vars
    /\ [][(call.pc # "idle" /\ call'.pc = "idle") =>
              /\ error' # ""
              /\ ~saving'
              /\ UNCHANGED <<nodes, edges>>]_vars
    /\ [][saving => ~SaveClick]_vars

\* a save went through its three requests and onImported was called
C30_PublishedAndClosed ==
    /\ Closed
    /\ call.publish
    /\ version.state = "published"
    /\ request.kind = "publish"
====
